---- MODULE Spec2Model ----
(***************************************************************************)
(* Model of the IS31FL3731 driver's register-protocol engine (src/lib.rs). *)
(*                                                                         *)
(* The driver is a transaction sequencer: every operation issues a list of *)
(* i2c writes (and, for setup/reset, one delay) and aborts on the first    *)
(* transport error.  The state is the device struct (address, cached       *)
(* frame), the part of the chip the driver's bookkeeping mirrors (selected *)
(* bank, frame-select register), and the record of the last operation:     *)
(* its call, the events it produced, and its return value.                 *)
(***************************************************************************)
EXTENDS Integers, Sequences, FiniteSets, TLC

VARIABLES dev, chip, call, log, ret

vars == <<dev, chip, call, log, ret>>

(***************************************************************************)
(* pub mod addresses                                                       *)
(***************************************************************************)
MODE_REGISTER == 0
FRAME         == 1
AUDIOSYNC     == 6
SHUTDOWN      == 10
CONFIG_BANK   == 11
BANK_ADDRESS  == 253
PICTURE_MODE  == 0
AUTOPLAY_MODE == 8
ENABLE_OFFSET == 0
BLINK_OFFSET  == 18
COLOR_OFFSET  == 36

(***************************************************************************)
(* Literals of the engine's code.                                          *)
(***************************************************************************)
NUM_LEDS      == 144      \* pixel_blocking: led >= 144; all_pixels: [u8; 144]
MAX_FRAME     == 8        \* frame_blocking: frame > 8
FILL_ROWS     == 6        \* fill_blocking: for row in 0..6
ROW_LEN       == 24       \* fill_blocking: row * 24
PAYLOAD_LEN   == 25       \* fill_blocking: [brightness; 25]
NUM_COLS      == 18       \* fill_blocking / setup_blocking: for col in 0..18
SETUP_FRAMES  == 8        \* setup_blocking: for frame in 0..8
RESET_MS      == 10       \* setup_blocking / reset_blocking: delay_ms(10)
DEFAULT_ADDR  == 116      \* 0x74, the address most boards configure
ALT_ADDR      == 117      \* 0x75, the address two boards configure

(***************************************************************************)
(* Bounds of the model: which transaction of an operation the transport    *)
(* fails (0: none).  Every operation is tried with a failure at each of    *)
(* its first MaxFailAt transactions and at the deep points below, which    *)
(* fall inside fill's blink loop, on fill's last transaction, on the first *)
(* transaction of setup's second frame, and on setup's last transaction.   *)
(***************************************************************************)
MaxFailAt == 3

DeepFailPoints == {8, 43, 86, 642}

FailPoints == (0..MaxFailAt) \cup DeepFailPoints

(***************************************************************************)
(* Inputs.                                                                 *)
(***************************************************************************)
FrameArgs  == {0, 8, 9, 255}             \* frame_blocking's argument
FillFrames == {2, 9, 11}                 \* fill_blocking's frame argument
LedArgs    == {0, 143, 144, 255}         \* pixel_blocking's led argument
Brightness == {0, 100}
ModeArgs   == {PICTURE_MODE, AUTOPLAY_MODE}
Addresses  == {DEFAULT_ADDR, ALT_ADDR}

\* Option<bool>: None is <<>>, Some(b) is <<b>>.
None    == <<>>
Some(b) == <<b>>
is_some(o) == Len(o) = 1
unwrap(o)  == o[1]
BlinkArgs  == {None, Some(TRUE), Some(FALSE)}

\* Two 144-byte buffers for all_pixels: a constant one and a ramp.
Buffers == { [i \in 1..NUM_LEDS |-> 7], [i \in 1..NUM_LEDS |-> i] }

(***************************************************************************)
(* Result values.  Ok(()) and Err(e); Error<I2cError> has the variants     *)
(* I2cError(e) (built by From<E>) and InvalidLocation(u8).                 *)
(***************************************************************************)
Ok     == [ok |-> TRUE]
Err(e) == [ok |-> FALSE, err |-> e]
BusError == "BusError"                   \* the transport's opaque error
From(e) == [variant |-> "I2cError", inner |-> e]
InvalidLocation(v) == [variant |-> "InvalidLocation", val |-> v]

(***************************************************************************)
(* Events an operation produces: bus transactions and delays.  A           *)
(* transaction records the address and bytes handed to the transport,      *)
(* whether the transport accepted it, and (for reading the log) the bank   *)
(* the caller meant the bytes for.                                         *)
(***************************************************************************)
Tx(addr, bytes, ok, target) ==
    [kind |-> "tx", addr |-> addr, bytes |-> bytes, ok |-> ok, target |-> target]
DelayEv(ms) == [kind |-> "delay", ms |-> ms]

(***************************************************************************)
(* The chip, as far as the driver mirrors it: a successful transaction     *)
(* [0xFD, b] selects bank b; any other successful transaction              *)
(* [reg, v1, ..., vn] writes v_i to register reg+i-1 of the selected bank. *)
(* Of the registers only the frame-select register (bank 0x0B, 0x01) is    *)
(* kept in the state.                                                      *)
(***************************************************************************)
chip_apply(c, bytes) ==
    IF bytes[1] = BANK_ADDRESS
    THEN [c EXCEPT !.bank = bytes[2]]
    ELSE IF /\ c.bank = CONFIG_BANK
            /\ bytes[1] <= FRAME
            /\ FRAME < bytes[1] + Len(bytes) - 1
         THEN [c EXCEPT !.frame = bytes[FRAME - bytes[1] + 2]]
         ELSE c

(***************************************************************************)
(* The machine an operation runs on: the device struct (self), the chip,   *)
(* the events so far, the number of transactions so far, the transaction   *)
(* the transport will fail, and the value of the last call.                *)
(***************************************************************************)
Machine(d, c, failAt) ==
    [self |-> d, chip |-> c, log |-> <<>>, ntx |-> 0, failAt |-> failAt, ret |-> Ok]

IsErr(m) == ~m.ret.ok

\* `?` in a function whose error type is Error<I2cError>: From converts.
Raise(m) == [m EXCEPT !.ret = Err(From(m.ret.err))]

\* self.i2c.write(self.address, bytes)
i2c_write(m, bytes, target) ==
    LET n  == m.ntx + 1
        ok == n # m.failAt
    IN  [m EXCEPT !.ntx  = n,
                  !.log  = Append(@, Tx(m.self.address, bytes, ok, target)),
                  !.chip = IF ok THEN chip_apply(@, bytes) ELSE @,
                  !.ret  = IF ok THEN Ok ELSE Err(BusError)]

\* delay.delay_ms(ms)
delay_ms(m, ms) == [m EXCEPT !.log = Append(@, DelayEv(ms))]

(***************************************************************************)
(* impl IS31FL3731 (blocking)                                              *)
(***************************************************************************)
bank_blocking(m, bank) ==
    i2c_write(m, <<BANK_ADDRESS, bank>>, bank)

\* Faulty variant: the bank-select's error is dropped and the register is written anyway.
write_register_ignoring_bank_error(m, bank, register, value) ==
    LET m1 == bank_blocking(m, bank)
    IN  i2c_write(m1, <<register, value>>, bank)

write_register_blocking(m, bank, register, value) ==
    LET m1 == bank_blocking(m, bank)
    IN  IF IsErr(m1) THEN m1
        ELSE i2c_write(m1, <<register, value>>, bank)

\* Faulty variant: the shutdown register's sense is taken the other way round.
sleep_blocking_inverted(m, yes) ==
    write_register_blocking(m, CONFIG_BANK, SHUTDOWN, IF yes THEN 1 ELSE 0)

sleep_blocking(m, yes) ==
    write_register_blocking(m, CONFIG_BANK, SHUTDOWN, IF yes THEN 0 ELSE 1)

audio_sync_blocking(m, yes) ==
    write_register_blocking(m, CONFIG_BANK, AUDIOSYNC, IF yes THEN 1 ELSE 0)

mode_blocking(m, mode) ==
    write_register_blocking(m, CONFIG_BANK, MODE_REGISTER, mode)

\* Faulty variant: the delay is made before the first write's result is looked at.
reset_blocking_delay_before_check(m) ==
    LET m1 == sleep_blocking(m, TRUE)
        m2 == delay_ms(m1, RESET_MS)
    IN  IF IsErr(m1) THEN m2
        ELSE sleep_blocking(m2, FALSE)

reset_blocking(m) ==
    LET m1 == sleep_blocking(m, TRUE)
        m2 == delay_ms(m1, RESET_MS)
    IN  IF IsErr(m1) THEN m1
        ELSE sleep_blocking(m2, FALSE)

\* Faulty variant: the range check is off by one and lets frame 9 through.
frame_blocking_accepting_9(m, frame) ==
    IF frame > MAX_FRAME + 1
    THEN [m EXCEPT !.ret = Err(InvalidLocation(frame))]
    ELSE LET m1 == [m EXCEPT !.self.frame = frame]
             m2 == write_register_blocking(m1, CONFIG_BANK, FRAME, frame)
         IN  IF IsErr(m2) THEN Raise(m2) ELSE m2

frame_blocking(m, frame) ==
    IF frame > MAX_FRAME
    THEN [m EXCEPT !.ret = Err(InvalidLocation(frame))]
    ELSE LET m1 == [m EXCEPT !.self.frame = frame]
             m2 == write_register_blocking(m1, CONFIG_BANK, FRAME, frame)
         IN  IF IsErr(m2) THEN Raise(m2) ELSE m2

\* Faulty variant: the range check is off by one and lets led 144 through.
pixel_blocking_accepting_144(m, led, brightness) ==
    IF led > NUM_LEDS
    THEN [m EXCEPT !.ret = Err(InvalidLocation(led))]
    ELSE LET m1 == write_register_blocking(m, m.self.frame, COLOR_OFFSET + led, brightness)
         IN  IF IsErr(m1) THEN Raise(m1) ELSE m1

pixel_blocking(m, led, brightness) ==
    IF led >= NUM_LEDS
    THEN [m EXCEPT !.ret = Err(InvalidLocation(led))]
    ELSE LET m1 == write_register_blocking(m, m.self.frame, COLOR_OFFSET + led, brightness)
         IN  IF IsErr(m1) THEN Raise(m1) ELSE m1

\* Faulty variant: the buffer goes out in two transactions of 72 values.
all_pixels_blocking_in_halves(m, buf) ==
    LET m1 == bank_blocking(m, m.self.frame)
        m2 == i2c_write(m1, <<COLOR_OFFSET>> \o SubSeq(buf, 1, 72), m.self.frame)
        m3 == i2c_write(m2, <<COLOR_OFFSET + 72>> \o SubSeq(buf, 73, 144), m.self.frame)
    IN  IF IsErr(m1) THEN Raise(m1)
        ELSE IF IsErr(m2) THEN Raise(m2)
        ELSE IF IsErr(m3) THEN Raise(m3) ELSE m3

all_pixels_blocking(m, buf) ==
    LET m1 == bank_blocking(m, m.self.frame)
        payload == <<COLOR_OFFSET>> \o buf
        m2 == i2c_write(m1, payload, m.self.frame)
    IN  IF IsErr(m1) THEN Raise(m1)
        ELSE IF IsErr(m2) THEN Raise(m2) ELSE m2

\* for row in 0..6 { payload[0] = COLOR_OFFSET + row * 24; i2c.write(payload)?; }
RECURSIVE fill_rows(_, _, _, _)
\* Faulty variant: the rows are laid out 25 registers apart, the payload's length.
fill_rows_stride_25(m, payload, frame, row) ==
    IF row >= FILL_ROWS THEN m
    ELSE LET m1 == i2c_write(m, [payload EXCEPT ![1] = COLOR_OFFSET + row * PAYLOAD_LEN], frame)
         IN  IF IsErr(m1) THEN m1
             ELSE fill_rows(m1, payload, frame, row + 1)

fill_rows(m, payload, frame, row) ==
    IF row >= FILL_ROWS THEN m
    ELSE LET m1 == i2c_write(m, [payload EXCEPT ![1] = COLOR_OFFSET + row * ROW_LEN], frame)
         IN  IF IsErr(m1) THEN m1
             ELSE fill_rows(m1, payload, frame, row + 1)

\* for col in 0..18 { write_register(frame, BLINK_OFFSET + col, data)?; }
RECURSIVE fill_blink(_, _, _, _)
fill_blink(m, frame, data, col) ==
    IF col >= NUM_COLS THEN m
    ELSE LET m1 == write_register_blocking(m, frame, BLINK_OFFSET + col, data)
         IN  IF IsErr(m1) THEN m1
             ELSE fill_blink(m1, frame, data, col + 1)

\* Faulty variant: the bulk rows are written after selecting the cached frame's bank
\* instead of the bank of the frame argument.
fill_blocking_in_cached_frame(m, brightness, blink, frame) ==
    LET m1 == bank_blocking(m, m.self.frame)
        payload == [i \in 1..PAYLOAD_LEN |-> brightness]
        m2 == fill_rows(m1, payload, frame, 0)
        data == (IF unwrap(blink) THEN 1 ELSE 0) * 255
    IN  IF IsErr(m1) THEN m1
        ELSE IF IsErr(m2) THEN m2
        ELSE IF is_some(blink) THEN fill_blink(m2, frame, data, 0)
        ELSE m2

\* Faulty variant: the blink byte is the flag itself (1 or 0), not the flag times 0xFF.
fill_blocking_blink_bit(m, brightness, blink, frame) ==
    LET m1 == bank_blocking(m, frame)
        payload == [i \in 1..PAYLOAD_LEN |-> brightness]
        m2 == fill_rows(m1, payload, frame, 0)
        data == IF unwrap(blink) THEN 1 ELSE 0
    IN  IF IsErr(m1) THEN m1
        ELSE IF IsErr(m2) THEN m2
        ELSE IF is_some(blink) THEN fill_blink(m2, frame, data, 0)
        ELSE m2

fill_blocking(m, brightness, blink, frame) ==
    LET m1 == bank_blocking(m, frame)
        payload == [i \in 1..PAYLOAD_LEN |-> brightness]
        m2 == fill_rows(m1, payload, frame, 0)
        data == (IF unwrap(blink) THEN 1 ELSE 0) * 255
    IN  IF IsErr(m1) THEN m1
        ELSE IF IsErr(m2) THEN m2
        ELSE IF is_some(blink) THEN fill_blink(m2, frame, data, 0)
        ELSE m2

\* for col in 0..18 { write_register(frame, ENABLE_OFFSET + col, 0xFF)?; }
RECURSIVE setup_enable(_, _, _)
setup_enable(m, frame, col) ==
    IF col >= NUM_COLS THEN m
    ELSE LET m1 == write_register_blocking(m, frame, ENABLE_OFFSET + col, 255)
         IN  IF IsErr(m1) THEN m1
             ELSE setup_enable(m1, frame, col + 1)

\* for frame in 0..8 { fill(0, Some(false), frame)?; for col in 0..18 {...} }
RECURSIVE setup_frames(_, _)
\* Faulty variant: a frame's display-enable registers are written before its fill.
setup_frames_enable_first(m, frame) ==
    IF frame >= SETUP_FRAMES THEN m
    ELSE LET m1 == setup_enable(m, frame, 0)
             m2 == fill_blocking(m1, 0, Some(FALSE), frame)
         IN  IF IsErr(m1) THEN m1
             ELSE IF IsErr(m2) THEN m2
             ELSE setup_frames(m2, frame + 1)

setup_frames(m, frame) ==
    IF frame >= SETUP_FRAMES THEN m
    ELSE LET m1 == fill_blocking(m, 0, Some(FALSE), frame)
             m2 == setup_enable(m1, frame, 0)
         IN  IF IsErr(m1) THEN m1
             ELSE IF IsErr(m2) THEN m2
             ELSE setup_frames(m2, frame + 1)

\* Faulty variant: setup leaves out the frame-select of frame 0.
setup_blocking_without_frame_select(m) ==
    LET m1 == sleep_blocking(m, TRUE)
        m2 == delay_ms(m1, RESET_MS)
        m3 == mode_blocking(m2, PICTURE_MODE)
        m5 == setup_frames(m3, 0)
        m6 == audio_sync_blocking(m5, FALSE)
        m7 == sleep_blocking(m6, FALSE)
    IN  IF IsErr(m1) THEN Raise(m1)
        ELSE IF IsErr(m3) THEN Raise(m3)
        ELSE IF IsErr(m5) THEN Raise(m5)
        ELSE IF IsErr(m6) THEN Raise(m6)
        ELSE IF IsErr(m7) THEN Raise(m7)
        ELSE m7

setup_blocking(m) ==
    LET m1 == sleep_blocking(m, TRUE)
        m2 == delay_ms(m1, RESET_MS)
        m3 == mode_blocking(m2, PICTURE_MODE)
        m4 == frame_blocking(m3, 0)
        m5 == setup_frames(m4, 0)
        m6 == audio_sync_blocking(m5, FALSE)
        m7 == sleep_blocking(m6, FALSE)
    IN  IF IsErr(m1) THEN Raise(m1)
        ELSE IF IsErr(m3) THEN Raise(m3)
        ELSE IF IsErr(m4) THEN m4
        ELSE IF IsErr(m5) THEN Raise(m5)
        ELSE IF IsErr(m6) THEN Raise(m6)
        ELSE IF IsErr(m7) THEN Raise(m7)
        ELSE m7

set_address(m, address) == [m EXCEPT !.self.address = address]

\* IS31FL3731::new(i2c, address)
new(address) == [address |-> address, frame |-> 0]

(***************************************************************************)
(* The state machine: the caller owns the handle and calls one operation   *)
(* after another; each action is one whole call, and leaves the machine    *)
(* the call ended in.                                                      *)
(***************************************************************************)
Init ==
    /\ dev  = new(DEFAULT_ADDR)
    /\ chip = [bank |-> 0, frame |-> 0]
    /\ call = [op |-> "new"]
    /\ log  = <<>>
    /\ ret  = Ok

Setup ==
    \E k \in FailPoints :
        \E m \in {setup_blocking(Machine(dev, chip, k))} :
            /\ dev'  = m.self
            /\ chip' = m.chip
            /\ log'  = m.log
            /\ ret'  = m.ret
            /\ call' = [op |-> "setup"]

Reset ==
    \E k \in FailPoints :
        \E m \in {reset_blocking(Machine(dev, chip, k))} :
            /\ dev'  = m.self
            /\ chip' = m.chip
            /\ log'  = m.log
            /\ ret'  = m.ret
            /\ call' = [op |-> "reset"]

Fill ==
    \E k \in FailPoints, b \in Brightness, bl \in BlinkArgs, f \in FillFrames :
        \E m \in {fill_blocking(Machine(dev, chip, k), b, bl, f)} :
            /\ dev'  = m.self
            /\ chip' = m.chip
            /\ log'  = m.log
            /\ ret'  = m.ret
            /\ call' = [op |-> "fill", brightness |-> b, blink |-> bl, frame |-> f]

Pixel ==
    \E k \in FailPoints, led \in LedArgs, b \in Brightness :
        \E m \in {pixel_blocking(Machine(dev, chip, k), led, b)} :
            /\ dev'  = m.self
            /\ chip' = m.chip
            /\ log'  = m.log
            /\ ret'  = m.ret
            /\ call' = [op |-> "pixel", led |-> led, brightness |-> b]

AllPixels ==
    \E k \in FailPoints, buf \in Buffers :
        \E m \in {all_pixels_blocking(Machine(dev, chip, k), buf)} :
            /\ dev'  = m.self
            /\ chip' = m.chip
            /\ log'  = m.log
            /\ ret'  = m.ret
            /\ call' = [op |-> "all_pixels", buf |-> buf]

Frame ==
    \E k \in FailPoints, f \in FrameArgs :
        \E m \in {frame_blocking(Machine(dev, chip, k), f)} :
            /\ dev'  = m.self
            /\ chip' = m.chip
            /\ log'  = m.log
            /\ ret'  = m.ret
            /\ call' = [op |-> "frame", frame |-> f]

Mode ==
    \E k \in FailPoints, md \in ModeArgs :
        \E m \in {mode_blocking(Machine(dev, chip, k), md)} :
            /\ dev'  = m.self
            /\ chip' = m.chip
            /\ log'  = m.log
            /\ ret'  = m.ret
            /\ call' = [op |-> "mode", mode |-> md]

AudioSync ==
    \E k \in FailPoints, yes \in BOOLEAN :
        \E m \in {audio_sync_blocking(Machine(dev, chip, k), yes)} :
            /\ dev'  = m.self
            /\ chip' = m.chip
            /\ log'  = m.log
            /\ ret'  = m.ret
            /\ call' = [op |-> "audio_sync", yes |-> yes]

Sleep ==
    \E k \in FailPoints, yes \in BOOLEAN :
        \E m \in {sleep_blocking(Machine(dev, chip, k), yes)} :
            /\ dev'  = m.self
            /\ chip' = m.chip
            /\ log'  = m.log
            /\ ret'  = m.ret
            /\ call' = [op |-> "sleep", yes |-> yes]

SetAddress ==
    \E a \in Addresses :
        \E m \in {set_address(Machine(dev, chip, 0), a)} :
            /\ dev'  = m.self
            /\ chip' = m.chip
            /\ log'  = m.log
            /\ ret'  = m.ret
            /\ call' = [op |-> "set_address", address |-> a]

Next ==
    \/ Setup
    \/ Reset
    \/ Fill
    \/ Pixel
    \/ AllPixels
    \/ Frame
    \/ Mode
    \/ AudioSync
    \/ Sleep
    \/ SetAddress

Spec == Init /\ [][Next]_vars

TypeOK ==
    /\ dev.address \in Addresses
    /\ dev.frame \in 0..255
    /\ ret.ok \in BOOLEAN

(***************************************************************************)
(* Reading the log of the last operation.                                  *)
(***************************************************************************)
IsTx(e)      == e.kind = "tx"
IsBankSel(e) == e.kind = "tx" /\ e.bytes[1] = 253
IsWrite(e)   == e.kind = "tx" /\ e.bytes[1] # 253

TxIndices(l)    == {i \in DOMAIN l : IsTx(l[i])}
NumTx(l)        == Cardinality(TxIndices(l))
NumDelays(l)    == Cardinality({i \in DOMAIN l : l[i].kind = "delay"})
FailedTx(l)     == {i \in DOMAIN l : IsTx(l[i]) /\ ~l[i].ok}
\* The transport accepted every transaction of the operation.
TransportOk(l)  == FailedTx(l) = {}

\* What went over the wire, without the bookkeeping fields.
Wire(e) ==
    IF e.kind = "tx" THEN [kind |-> "tx", bytes |-> e.bytes, ms |-> 0]
    ELSE [kind |-> "delay", bytes |-> <<>>, ms |-> e.ms]
WireLog(l) == [i \in DOMAIN l |-> Wire(l[i])]
W(bytes)   == [kind |-> "tx", bytes |-> bytes, ms |-> 0]
D(ms)      == [kind |-> "delay", bytes |-> <<>>, ms |-> ms]

\* The error an operation reports for a transport failure: operations whose
\* error type is Error<I2cError> wrap it, the others pass it on.
WrapsError(op) == op \in {"setup", "pixel", "all_pixels", "frame"}
ReportsBusError(c, r) ==
    /\ ~r.ok
    /\ IF WrapsError(c.op) THEN r.err = From(BusError) ELSE r.err = BusError

(***************************************************************************)
(* C1: the cached frame index always equals the value last written         *)
(* successfully to the chip's frame-select register.                       *)
(***************************************************************************)
C1_CacheMatchesChip == dev.frame = chip.frame

(***************************************************************************)
(* C2: setFrame(f) with f in 0..8 and a succeeding transport returns       *)
(* success, issues exactly [0xFD, 0x0B] then [0x01, f], and the cached     *)
(* frame becomes f; with f in 9..255 it returns InvalidLocation(f), issues *)
(* no transaction and leaves the cached frame unchanged.                   *)
(***************************************************************************)
C2_SetFrame ==
    [][ call'.op = "frame" =>
          IF call'.frame <= 8
          THEN TransportOk(log') =>
                 /\ ret' = Ok
                 /\ WireLog(log') = << W(<<253, 11>>), W(<<1, call'.frame>>) >>
                 /\ dev'.frame = call'.frame
          ELSE /\ ret' = Err(InvalidLocation(call'.frame))
               /\ log' = <<>>
               /\ dev'.frame = dev.frame ]_vars

C2_Witness ==
    call.op = "frame" /\ call.frame = 8 /\ ret.ok /\ dev.frame = 8 /\ NumTx(log) = 2

(***************************************************************************)
(* C3: setFrame, fill and setPixel called with a frame number outside 0..8 *)
(* or a pixel index outside 0..143 fail with InvalidLocation and issue no  *)
(* bus transaction.                                                        *)
(***************************************************************************)
InvalidArg(c) ==
    \/ c.op = "frame" /\ c.frame > 8
    \/ c.op = "fill"  /\ c.frame > 8
    \/ c.op = "pixel" /\ c.led > 143

C3_InvalidNeverReachesWire ==
    InvalidArg(call) =>
        /\ log = <<>>
        /\ ~ret.ok
        /\ ret.err.variant = "InvalidLocation"

(***************************************************************************)
(* C4: setPixel(led, b) with led in 144..255 returns InvalidLocation(led)  *)
(* and issues no transaction; with led in 0..143 and a succeeding          *)
(* transport it returns success and issues exactly [0xFD, F], F the cached *)
(* frame at call time, then [0x24 + led, b].                               *)
(***************************************************************************)
C4_SetPixel ==
    [][ call'.op = "pixel" =>
          IF call'.led >= 144
          THEN /\ ret' = Err(InvalidLocation(call'.led))
               /\ log' = <<>>
          ELSE TransportOk(log') =>
                 /\ ret' = Ok
                 /\ WireLog(log') = << W(<<253, dev.frame>>),
                                       W(<<36 + call'.led, call'.brightness>>) >> ]_vars

C4_Witness ==
    call.op = "pixel" /\ call.led = 143 /\ ret.ok /\ dev.frame = 8 /\ NumTx(log) = 2
(***************************************************************************)
(* The chip's frame memory, for reading what an operation left in it:      *)
(* frames 0..8, each with registers 0x00..0xB3 (18 display-enable, 18      *)
(* blink, 144 brightness).  A successful transaction [0xFD, b] selects     *)
(* bank b; any other successful transaction [reg, v1, ..., vn] writes v_i  *)
(* to register reg+i-1 of the selected bank when that bank is a frame.     *)
(***************************************************************************)
ChipFrames == 0..8
ChipRegs   == 0..179

\* Bytes i.. of a transaction go to registers reg, reg+1, ... of one frame.
RECURSIVE chip_write_regs(_, _, _, _)
chip_write_regs(regs, reg, bytes, i) ==
    IF i > Len(bytes) THEN regs
    ELSE chip_write_regs(IF reg \in ChipRegs THEN [regs EXCEPT ![reg] = bytes[i]] ELSE regs,
                         reg + 1, bytes, i + 1)

chip_mem_apply(cm, bytes) ==
    IF bytes[1] = 253
    THEN [cm EXCEPT !.bank = bytes[2]]
    ELSE IF cm.bank \in ChipFrames
         THEN [cm EXCEPT !.mem[cm.bank] = chip_write_regs(@, bytes[1], bytes, 2)]
         ELSE cm

\* The chip after the successful transactions lo..hi of a log.  The log is
\* taken by halves, and the first half's result is inspected before the second
\* half starts, so that the evaluation stays shallow.
RECURSIVE ChipMemAfter(_, _, _, _)
ChipMemAfter(cm, l, lo, hi) ==
    IF lo > hi THEN cm
    ELSE IF lo = hi
         THEN IF IsTx(l[lo]) /\ l[lo].ok THEN chip_mem_apply(cm, l[lo].bytes) ELSE cm
         ELSE LET mid  == (lo + hi) \div 2
                  left == ChipMemAfter(cm, l, lo, mid)
              IN  IF left.bank \in 0..255
                  THEN ChipMemAfter(left, l, mid + 1, hi)
                  ELSE left

\* Prior chip states: the power-on state (every register 0) and a used chip
\* (every register 0xAA), with bank 0 or the configuration bank selected.
PriorChips ==
    { [bank |-> b, mem |-> [f \in ChipFrames |-> [r \in ChipRegs |-> v]]] :
        b \in {0, 11}, v \in {0, 170} }

FrameCleared(mem, f) ==
    /\ \A r \in 0..17   : mem[f][r] = 255
    /\ \A r \in 18..35  : mem[f][r] = 0
    /\ \A r \in 36..179 : mem[f][r] = 0

(***************************************************************************)
(* C5: after setup returns success, from any prior chip state, each of the *)
(* nine frames 0..8 has all 144 brightness registers 0, all 18 blink       *)
(* registers 0x00 and all 18 display-enable registers 0xFF.                *)
(***************************************************************************)
C5_SetupClearsAllFrames ==
    (call.op = "setup" /\ ret.ok) =>
        \A cm \in PriorChips : \A f \in 0..8 :
            FrameCleared(ChipMemAfter(cm, log, 1, Len(log)).mem, f)

(***************************************************************************)
(* C6: setup against a succeeding transport issues, and issues only: the   *)
(* sleep-assert write, one 10 ms delay, the picture-mode write, the        *)
(* frame-select(0) write, then per frame, in strictly increasing frame     *)
(* order, the fill (bank-select, 6 bulk writes, 18 blink writes) followed  *)
(* by the 18 display-enable writes, then the audio-sync-off write, and     *)
(* last the sleep-de-assert write.                                         *)
(***************************************************************************)
RECURSIVE SortedSeq(_)
SortedSeq(S) ==
    IF S = {} THEN <<>>
    ELSE LET lo == CHOOSE x \in S : \A y \in S : x <= y
         IN  <<lo>> \o SortedSeq(S \ {lo})

RECURSIVE Concat(_)
Concat(ss) == IF ss = <<>> THEN <<>> ELSE Head(ss) \o Concat(Tail(ss))

RegWrite(bank, reg, val) == << W(<<253, bank>>), W(<<reg, val>>) >>

FrameBlock(f) ==
    <<W(<<253, f>>)>>
    \o [r \in 1..6 |-> W(<<36 + 24 * (r - 1)>> \o [i \in 1..24 |-> 0])]
    \o Concat([c \in 1..18 |-> RegWrite(f, 18 + (c - 1), 0)])
    \o Concat([c \in 1..18 |-> RegWrite(f, c - 1, 255)])

SetupOrder(frames) ==
    RegWrite(11, 10, 0)
    \o <<D(10)>>
    \o RegWrite(11, 0, 0)
    \o RegWrite(11, 1, 0)
    \o Concat([i \in DOMAIN frames |-> FrameBlock(frames[i])])
    \o RegWrite(11, 6, 0)
    \o RegWrite(11, 10, 1)

\* The frame banks an operation selected.
FramesSelected(l) ==
    {l[i].bytes[2] : i \in {j \in DOMAIN l : IsBankSel(l[j])}} \ {11}

C6_SetupOrder ==
    (call.op = "setup" /\ TransportOk(log)) =>
        /\ FramesSelected(log) # {}
        /\ WireLog(log) = SetupOrder(SortedSeq(FramesSelected(log)))

C6_Witness ==
    call.op = "setup" /\ TransportOk(log) /\ ret.ok /\ NumDelays(log) = 1

(***************************************************************************)
(* C7: when the transport fails a transaction of an operation, that        *)
(* transaction is the operation's last event (nothing is re-sent, nothing  *)
(* further is issued, no further delay is made) and the operation returns  *)
(* the transport's error; when setup's 3rd transaction fails, setup has    *)
(* issued exactly 3 transactions.                                          *)
(***************************************************************************)
C7_AbortOnFirstFailure ==
    /\ \A i \in FailedTx(log) : i = Len(log) /\ ReportsBusError(call, ret)
    /\ ret.ok => TransportOk(log)
    /\ \A k \in 1..Len(log) :
          (IsTx(log[k]) /\ ~log[k].ok) => NumTx(log) = NumTx(SubSeq(log, 1, k))
    /\ (call.op = "setup" /\ \E i \in FailedTx(log) : NumTx(SubSeq(log, 1, i)) = 3)
          => NumTx(log) = 3 /\ NumDelays(log) = 1

C7_Witness ==
    /\ call.op = "setup"
    /\ NumTx(log) = 3
    /\ FailedTx(log) = {Len(log)}
    /\ ret = Err(From(BusError))

(***************************************************************************)
(* C8: every register or bulk write is issued only when the most recent    *)
(* bank-select transaction succeeded and selected the bank the write is    *)
(* meant for (0x0B for mode, frame, audio-sync and shutdown writes, the    *)
(* target frame for brightness, blink and enable writes); no write is the  *)
(* first transaction of an operation.                                      *)
(***************************************************************************)
\* The index of the last bank-select among events 1..i of a log, 0 if none.
RECURSIVE LastBankSel(_, _)
LastBankSel(l, i) ==
    IF i < 1 THEN 0
    ELSE IF IsBankSel(l[i]) THEN i
    ELSE LastBankSel(l, i - 1)

\* Write i of the log follows a bank-select; the last one before it was
\* accepted and selected the bank the write is meant for.
BankDiscipline(l, i) ==
    LET j == LastBankSel(l, i - 1)
    IN  /\ j > 0
        /\ l[j].ok
        /\ l[j].bytes[2] = l[i].target

\* The bank a write is meant for: c is the call, cached the cached frame when
\* the call was made.
IntendedBank(c, cached, e) ==
    CASE c.op \in {"mode", "audio_sync", "sleep", "reset", "frame"} -> e.target = 11
      [] c.op = "fill" -> e.target = c.frame
      [] c.op \in {"pixel", "all_pixels"} -> e.target = cached
      [] c.op = "setup" -> e.target \in (0..8) \cup {11}
      [] OTHER -> FALSE

C8_BankSelectedBeforeWrite ==
    [][ \A i \in DOMAIN log' :
          IsWrite(log'[i]) =>
              /\ i > 1
              /\ BankDiscipline(log', i)
              /\ IntendedBank(call', dev.frame, log'[i]) ]_vars

C8_Witness ==
    /\ call.op = "fill"
    /\ call.frame = 2
    /\ NumTx(log) = 43
    /\ ret.ok

(***************************************************************************)
(* C9: fill with a succeeding transport issues exactly 6 bulk brightness   *)
(* writes; with blink None no blink-register write; with Some(true)        *)
(* exactly 18 blink-register writes, registers 0x12..0x23 of that frame,   *)
(* all 0xFF; with Some(false) exactly 18, all 0x00.                        *)
(***************************************************************************)
BulkWrites(l)  == {i \in DOMAIN l : IsWrite(l[i]) /\ Len(l[i].bytes) > 2}
BlinkWrites(l) == {i \in DOMAIN l : IsWrite(l[i]) /\ Len(l[i].bytes) = 2
                                     /\ l[i].bytes[1] \in 18..35}

C9_FillWrites ==
    (call.op = "fill" /\ TransportOk(log)) =>
        /\ ret.ok
        /\ Cardinality(BulkWrites(log)) = 6
        /\ \A i \in BulkWrites(log) :
              /\ Len(log[i].bytes) = 25
              /\ \A j \in 2..25 : log[i].bytes[j] = call.brightness
        /\ IF call.blink = <<>>
           THEN BlinkWrites(log) = {}
           ELSE /\ Cardinality(BlinkWrites(log)) = 18
                /\ {log[i].bytes[1] : i \in BlinkWrites(log)} = 18..35
                /\ \A i \in BlinkWrites(log) :
                      /\ log[i].bytes[2] = IF call.blink[1] THEN 255 ELSE 0
                      /\ log[i].target = call.frame
        /\ NumTx(log) = 1 + 6 + 2 * Cardinality(BlinkWrites(log))

C9_Witness ==
    /\ call.op = "fill"
    /\ call.blink = <<TRUE>>
    /\ call.frame = 2
    /\ TransportOk(log)
    /\ Cardinality(BlinkWrites(log)) = 18

(***************************************************************************)
(* C10: only setFrame changes the cached frame index: fill, setPixel,      *)
(* setAllPixels, reset, setMode, setAudioSync, setSleep and set_address    *)
(* leave it unchanged whether they succeed or fail, and an unsuccessful    *)
(* setFrame leaves it unchanged too.                                       *)
(***************************************************************************)
C10_OnlySetFrameMovesCache ==
    [][ /\ call'.op \in {"fill", "pixel", "all_pixels", "reset", "mode",
                         "audio_sync", "sleep", "set_address"}
           => dev'.frame = dev.frame
        /\ (call'.op = "frame" /\ ~ret'.ok) => dev'.frame = dev.frame ]_vars


(***************************************************************************)
(* The pixel address translators (devices.rs) and the gamma table.         *)
(*                                                                         *)
(* A calc_pixel call ends in one of three ways: Ok(index), an              *)
(* Err(InvalidLocation(c)), or a panic.  u8 arithmetic that leaves 0..255  *)
(* panics in a build with overflow checks (the debug profile) and wraps    *)
(* modulo 256 in a build without them (the release profile); indexing an   *)
(* array outside its length panics in both.  The build is an input of the  *)
(* call: checks = TRUE is the build with overflow checks.                  *)
(***************************************************************************)
U8 == 0..255
OkVal(v) == [ok |-> TRUE, val |-> v]
Panic(why) == [ok |-> FALSE, panic |-> why]
IsPanic(r) == "panic" \in DOMAIN r
IsOkVal(r) == "val" \in DOMAIN r

\* A u8 expression: steps lists the value of every sub-expression in the
\* order the code computes them, as integers; the last one is the result.
\* Wrapping every step modulo 256 gives the last step modulo 256.
u8_expr(checks, steps) ==
    IF \A i \in DOMAIN steps : steps[i] \in U8 THEN OkVal(steps[Len(steps)])
    ELSE IF checks THEN Panic("arithmetic overflow")
    ELSE OkVal(steps[Len(steps)] % 256)

\* lookup[x as usize][y as usize] on a table of rows.
index2(lookup, x, y) ==
    IF x + 1 \in DOMAIN lookup /\ y + 1 \in DOMAIN lookup[x + 1]
    THEN OkVal(lookup[x + 1][y + 1])
    ELSE Panic("index out of bounds")

CharlieBonnet_calc_pixel(x, y, checks) ==
    IF x > 16 THEN Err(InvalidLocation(x))
    ELSE IF y > 8 THEN Err(InvalidLocation(y))
    ELSE IF x >= 8
         THEN u8_expr(checks, <<x - 6, (x - 6) * 16, y + 1, (x - 6) * 16 - (y + 1)>>)
         ELSE u8_expr(checks, <<x + 1, (x + 1) * 16, 7 - y, (x + 1) * 16 + (7 - y)>>)

CharlieWing_calc_pixel(x, y, checks) ==
    IF x > 15 THEN Err(InvalidLocation(x))
    ELSE IF y > 7 THEN Err(InvalidLocation(y))
    ELSE IF x > 7
         THEN u8_expr(checks, <<x - 15, y + 8, (x - 15) * 16, (x - 15) * 16 + (y + 8)>>)
         ELSE u8_expr(checks, <<7 - y, x * 16, x * 16 + (7 - y)>>)

Keybow2040_lookup ==
    << <<120, 88, 104>>, <<136, 40, 72>>, <<112, 80, 96>>, <<128, 32, 64>>,
       <<121, 89, 105>>, <<137, 41, 73>>, <<113, 81, 97>>, <<129, 33, 65>>,
       <<122, 90, 106>>, <<138, 25, 74>>, <<114, 82, 98>>, <<130, 17, 66>>,
       <<123, 91, 107>>, <<139, 26, 75>>, <<115, 83, 99>>, <<131, 18, 67>> >>

Keybow2040_calc_pixel(x, y, checks) ==
    IF x > 16 THEN Err(InvalidLocation(x))
    ELSE IF y > 3 THEN Err(InvalidLocation(y))
    ELSE index2(Keybow2040_lookup, x, y)

LEDShim_calc_pixel(x, y, checks) ==
    IF x > 28 THEN Err(InvalidLocation(x))
    ELSE IF y > 3 THEN Err(InvalidLocation(y))
    ELSE IF y = 0 THEN
        IF x < 7 THEN u8_expr(checks, <<118 - x>>)
        ELSE IF x < 15 THEN u8_expr(checks, <<141 - x>>)
        ELSE IF x < 21 THEN u8_expr(checks, <<106 + x>>)
        ELSE IF x = 21 THEN OkVal(14)
        ELSE u8_expr(checks, <<x - 14>>)
    ELSE IF y = 1 THEN
        IF x < 2 THEN u8_expr(checks, <<69 - x>>)
        ELSE IF x < 7 THEN u8_expr(checks, <<86 - x>>)
        ELSE IF x < 12 THEN u8_expr(checks, <<28 - x>>)
        ELSE IF x < 14 THEN u8_expr(checks, <<45 - x>>)
        ELSE IF x = 14 THEN OkVal(47)
        ELSE IF x = 15 THEN OkVal(41)
        ELSE IF x < 21 THEN u8_expr(checks, <<x + 9>>)
        ELSE IF x = 21 THEN OkVal(95)
        ELSE IF x < 26 THEN u8_expr(checks, <<x + 67>>)
        ELSE u8_expr(checks, <<x + 50>>)
    ELSE
        IF x = 0 THEN OkVal(85)
        ELSE IF x < 7 THEN u8_expr(checks, <<102 - x>>)
        ELSE IF x < 11 THEN u8_expr(checks, <<44 - x>>)
        ELSE IF x = 14 THEN OkVal(63)
        ELSE IF x < 17 THEN u8_expr(checks, <<42 + x>>)
        ELSE IF x < 21 THEN u8_expr(checks, <<x + 25>>)
        ELSE IF x = 21 THEN OkVal(111)
        ELSE IF x < 27 THEN u8_expr(checks, <<x + 83>>)
        ELSE OkVal(93)

Matrix_calc_pixel(x, y, checks) ==
    IF x > 16 THEN Err(InvalidLocation(x))
    ELSE IF y > 9 THEN Err(InvalidLocation(y))
    ELSE u8_expr(checks, <<y * 16, x + y * 16>>)

RGBMatrix5x5_lookup ==
    << <<118, 69, 85>>, <<117, 68, 101>>, <<116, 84, 100>>, <<115, 83, 99>>,
       <<114, 82, 98>>, <<132, 19, 35>>, <<133, 20, 36>>, <<134, 21, 37>>,
       <<112, 80, 96>>, <<113, 81, 97>>, <<131, 18, 34>>, <<130, 17, 50>>,
       <<129, 33, 49>>, <<128, 32, 48>>, <<127, 47, 63>>, <<125, 28, 44>>,
       <<124, 27, 43>>, <<123, 26, 42>>, <<122, 25, 58>>, <<121, 41, 57>>,
       <<126, 29, 45>>, <<15, 95, 111>>, <<8, 89, 105>>, <<9, 90, 106>>,
       <<10, 91, 107>> >>

RGBMatrix5x5_calc_pixel(x, y, checks) ==
    IF x > 25 THEN Err(InvalidLocation(x))
    ELSE IF y > 3 THEN Err(InvalidLocation(y))
    ELSE index2(RGBMatrix5x5_lookup, x, y)

ScrollPhatHD_calc_pixel(x, y, checks) ==
    IF x > 17 THEN Err(InvalidLocation(x))
    ELSE IF y > 7 THEN Err(InvalidLocation(y))
    ELSE IF x <= 8
         THEN u8_expr(checks, <<8 - x, 6 - y, (8 - x) * 16, (8 - x) * 16 + (6 - y)>>)
         ELSE u8_expr(checks, <<x - 8, y - 8, (x - 8) * 16, (x - 8) * 16 + (y - 8)>>)

Layouts == {"CharlieBonnet", "CharlieWing", "Keybow2040", "LEDShim", "Matrix",
            "RGBMatrix5x5", "ScrollPhatHD"}

\* The translator of a layout.
calc_pixel(layout, x, y, checks) ==
    CASE layout = "CharlieBonnet" -> CharlieBonnet_calc_pixel(x, y, checks)
      [] layout = "CharlieWing"   -> CharlieWing_calc_pixel(x, y, checks)
      [] layout = "Keybow2040"    -> Keybow2040_calc_pixel(x, y, checks)
      [] layout = "LEDShim"       -> LEDShim_calc_pixel(x, y, checks)
      [] layout = "Matrix"        -> Matrix_calc_pixel(x, y, checks)
      [] layout = "RGBMatrix5x5"  -> RGBMatrix5x5_calc_pixel(x, y, checks)
      [] layout = "ScrollPhatHD"  -> ScrollPhatHD_calc_pixel(x, y, checks)

GAMMA_TABLE == <<
      0,   0,   0,   0,   0,   0,   0,   0,   0,   0,   0,   0,   0,   0,   0,   0,
      0,   0,   0,   0,   0,   0,   1,   1,   1,   1,   1,   1,   1,   2,   2,   2,
      2,   2,   2,   3,   3,   3,   3,   3,   4,   4,   4,   4,   5,   5,   5,   5,
      6,   6,   6,   7,   7,   7,   8,   8,   8,   9,   9,   9,  10,  10,  11,  11,
     11,  12,  12,  13,  13,  13,  14,  14,  15,  15,  16,  16,  17,  17,  18,  18,
     19,  19,  20,  21,  21,  22,  22,  23,  23,  24,  25,  25,  26,  27,  27,  28,
     29,  29,  30,  31,  31,  32,  33,  34,  34,  35,  36,  37,  37,  38,  39,  40,
     40,  41,  42,  43,  44,  45,  46,  46,  47,  48,  49,  50,  51,  52,  53,  54,
     55,  56,  57,  58,  59,  60,  61,  62,  63,  64,  65,  66,  67,  68,  69,  70,
     71,  72,  73,  74,  76,  77,  78,  79,  80,  81,  83,  84,  85,  86,  88,  89,
     90,  91,  93,  94,  95,  96,  98,  99, 100, 102, 103, 104, 106, 107, 109, 110,
    111, 113, 114, 116, 117, 119, 120, 121, 123, 124, 126, 128, 129, 131, 132, 134,
    135, 137, 138, 140, 142, 143, 145, 146, 148, 150, 151, 153, 155, 157, 158, 160,
    162, 163, 165, 167, 169, 170, 172, 174, 176, 178, 179, 181, 183, 185, 187, 189,
    191, 193, 194, 196, 198, 200, 202, 204, 206, 208, 210, 212, 214, 216, 218, 220,
    222, 224, 227, 229, 231, 233, 235, 237, 239, 241, 244, 246, 248, 250, 252, 255 >>

\* Faulty variant: the table is read from its far end.
gamma_from_end(val) == GAMMA_TABLE[256 - val]

gamma(val) == GAMMA_TABLE[val + 1]

(***************************************************************************)
(* The translators and gamma as a state machine: the initial state holds   *)
(* the arguments of one call, the action of the called function applies    *)
(* it and leaves its result in ret.  Coordinates are u8; they are drawn    *)
(* from 0..MaxX and 0..MaxY, which reach past every layout's bounds        *)
(* check, and from the largest u8.                                         *)
(***************************************************************************)
MaxX == 30
MaxY == 10
XArgs == (0..MaxX) \cup {255}
YArgs == (0..MaxY) \cup {255}

PureArgs ==
    [op : {"args"}, layout : Layouts, x : XArgs, y : YArgs, checks : BOOLEAN]
        \cup [op : {"gamma_args"}, val : U8]

InitPure ==
    /\ dev = new(DEFAULT_ADDR)
    /\ chip = [bank |-> 0, frame |-> 0]
    /\ log = <<>>
    /\ ret = Ok
    /\ call \in PureArgs

CharlieBonnetCalcPixel ==
    /\ call.op = "args" /\ call.layout = "CharlieBonnet"
    /\ ret' = CharlieBonnet_calc_pixel(call.x, call.y, call.checks)
    /\ call' = [call EXCEPT !.op = "calc_pixel"]
    /\ UNCHANGED <<dev, chip, log>>

CharlieWingCalcPixel ==
    /\ call.op = "args" /\ call.layout = "CharlieWing"
    /\ ret' = CharlieWing_calc_pixel(call.x, call.y, call.checks)
    /\ call' = [call EXCEPT !.op = "calc_pixel"]
    /\ UNCHANGED <<dev, chip, log>>

Keybow2040CalcPixel ==
    /\ call.op = "args" /\ call.layout = "Keybow2040"
    /\ ret' = Keybow2040_calc_pixel(call.x, call.y, call.checks)
    /\ call' = [call EXCEPT !.op = "calc_pixel"]
    /\ UNCHANGED <<dev, chip, log>>

LEDShimCalcPixel ==
    /\ call.op = "args" /\ call.layout = "LEDShim"
    /\ ret' = LEDShim_calc_pixel(call.x, call.y, call.checks)
    /\ call' = [call EXCEPT !.op = "calc_pixel"]
    /\ UNCHANGED <<dev, chip, log>>

MatrixCalcPixel ==
    /\ call.op = "args" /\ call.layout = "Matrix"
    /\ ret' = Matrix_calc_pixel(call.x, call.y, call.checks)
    /\ call' = [call EXCEPT !.op = "calc_pixel"]
    /\ UNCHANGED <<dev, chip, log>>

RGBMatrix5x5CalcPixel ==
    /\ call.op = "args" /\ call.layout = "RGBMatrix5x5"
    /\ ret' = RGBMatrix5x5_calc_pixel(call.x, call.y, call.checks)
    /\ call' = [call EXCEPT !.op = "calc_pixel"]
    /\ UNCHANGED <<dev, chip, log>>

ScrollPhatHDCalcPixel ==
    /\ call.op = "args" /\ call.layout = "ScrollPhatHD"
    /\ ret' = ScrollPhatHD_calc_pixel(call.x, call.y, call.checks)
    /\ call' = [call EXCEPT !.op = "calc_pixel"]
    /\ UNCHANGED <<dev, chip, log>>

Gamma ==
    /\ call.op = "gamma_args"
    /\ ret' = OkVal(gamma(call.val))
    /\ call' = [call EXCEPT !.op = "gamma"]
    /\ UNCHANGED <<dev, chip, log>>

NextPure ==
    \/ CharlieBonnetCalcPixel
    \/ CharlieWingCalcPixel
    \/ Keybow2040CalcPixel
    \/ LEDShimCalcPixel
    \/ MatrixCalcPixel
    \/ RGBMatrix5x5CalcPixel
    \/ ScrollPhatHDCalcPixel
    \/ Gamma

SpecPure == InitPure /\ [][NextPure]_vars


(***************************************************************************)
(* The RGB boards (devices.rs): Keybow2040, LEDShim and RGBMatrix5x5 wrap  *)
(* a device and write a pixel as three pixel_blocking calls, one per       *)
(* colour channel.                                                         *)
(***************************************************************************)
\* self.device.pixel_blocking(Self::calc_pixel(x, channel)?, value), where
\* led is what calc_pixel returned.
set_channel(m, led, value) ==
    IF ~led.ok THEN [m EXCEPT !.ret = led]
    ELSE pixel_blocking(m, led.val, value)

Keybow2040_pixel_rgb_blocking(m, x, y, r, g, b, checks) ==
    LET x1 == u8_expr(checks, <<3 - x, 4 * (3 - x), 4 * (3 - x) + y>>)
        m1 == set_channel(m, Keybow2040_calc_pixel(x1.val, 0, checks), r)
        m2 == set_channel(m1, Keybow2040_calc_pixel(x1.val, 1, checks), g)
        m3 == set_channel(m2, Keybow2040_calc_pixel(x1.val, 2, checks), b)
    IN  IF IsPanic(x1) THEN [m EXCEPT !.ret = x1]
        ELSE IF IsErr(m1) THEN m1
        ELSE IF IsErr(m2) THEN m2
        ELSE m3

LEDShim_pixel_rgb_blocking(m, x, r, g, b, checks) ==
    LET m1 == set_channel(m, LEDShim_calc_pixel(x, 0, checks), r)
        m2 == set_channel(m1, LEDShim_calc_pixel(x, 1, checks), g)
        m3 == set_channel(m2, LEDShim_calc_pixel(x, 2, checks), b)
    IN  IF IsErr(m1) THEN m1
        ELSE IF IsErr(m2) THEN m2
        ELSE m3

\* Faulty variant: a failed channel does not end the call.
RGBMatrix5x5_pixel_rgb_blocking_no_abort(m, x, y, r, g, b, checks) ==
    LET x1 == u8_expr(checks, <<y * 5, x + y * 5>>)
        m1 == set_channel(m, RGBMatrix5x5_calc_pixel(x1.val, 0, checks), r)
        m2 == set_channel(m1, RGBMatrix5x5_calc_pixel(x1.val, 1, checks), g)
        m3 == set_channel(m2, RGBMatrix5x5_calc_pixel(x1.val, 2, checks), b)
    IN  IF IsPanic(x1) THEN [m EXCEPT !.ret = x1]
        ELSE m3

RGBMatrix5x5_pixel_rgb_blocking(m, x, y, r, g, b, checks) ==
    LET x1 == u8_expr(checks, <<y * 5, x + y * 5>>)
        m1 == set_channel(m, RGBMatrix5x5_calc_pixel(x1.val, 0, checks), r)
        m2 == set_channel(m1, RGBMatrix5x5_calc_pixel(x1.val, 1, checks), g)
        m3 == set_channel(m2, RGBMatrix5x5_calc_pixel(x1.val, 2, checks), b)
    IN  IF IsPanic(x1) THEN [m EXCEPT !.ret = x1]
        ELSE IF IsErr(m1) THEN m1
        ELSE IF IsErr(m2) THEN m2
        ELSE m3

\* configure(i2c) of an RGB board.
configure(board) ==
    [address |-> IF board = "Keybow2040" THEN DEFAULT_ADDR ELSE ALT_ADDR,
     frame   |-> 0]

(***************************************************************************)
(* The RGB boards as a state machine: the initial state is a board just    *)
(* configured; every step is one pixel_rgb_blocking call on it.  The       *)
(* coordinates reach past the 4x4 and 5x5 grids and the 28-pixel shim; the *)
(* transport fails at most one of the call's transactions.                 *)
(***************************************************************************)
MaxGrid == 5
MaxRgbFail == 6
GridArgs == 0..MaxGrid
ShimArgs == {0, 21, 27, 28, 29, 255}
RgbFailPoints == 0..MaxRgbFail
Colours == {<<10, 20, 30>>, <<255, 0, 7>>}
RgbBoards == {"Keybow2040", "LEDShim", "RGBMatrix5x5"}

InitRgb ==
    /\ call \in [op : {"configure"}, board : RgbBoards]
    /\ dev = configure(call.board)
    /\ chip = [bank |-> 0, frame |-> 0]
    /\ log = <<>>
    /\ ret = Ok

Keybow2040PixelRgb ==
    /\ call.board = "Keybow2040"
    /\ \E k \in RgbFailPoints, x \in GridArgs, y \in GridArgs, c \in Colours, checks \in BOOLEAN :
        \E m \in {Keybow2040_pixel_rgb_blocking(Machine(dev, chip, k), x, y,
                                                c[1], c[2], c[3], checks)} :
            /\ dev'  = m.self
            /\ chip' = m.chip
            /\ log'  = m.log
            /\ ret'  = m.ret
            /\ call' = [op |-> "pixel_rgb", board |-> call.board, x |-> x, y |-> y,
                        rgb |-> c, k |-> k, checks |-> checks]

LEDShimPixelRgb ==
    /\ call.board = "LEDShim"
    /\ \E k \in RgbFailPoints, x \in ShimArgs, c \in Colours, checks \in BOOLEAN :
        \E m \in {LEDShim_pixel_rgb_blocking(Machine(dev, chip, k), x,
                                             c[1], c[2], c[3], checks)} :
            /\ dev'  = m.self
            /\ chip' = m.chip
            /\ log'  = m.log
            /\ ret'  = m.ret
            /\ call' = [op |-> "pixel_rgb", board |-> call.board, x |-> x,
                        rgb |-> c, k |-> k, checks |-> checks]

RGBMatrix5x5PixelRgb ==
    /\ call.board = "RGBMatrix5x5"
    /\ \E k \in RgbFailPoints, x \in GridArgs, y \in GridArgs, c \in Colours, checks \in BOOLEAN :
        \E m \in {RGBMatrix5x5_pixel_rgb_blocking(Machine(dev, chip, k), x, y,
                                                  c[1], c[2], c[3], checks)} :
            /\ dev'  = m.self
            /\ chip' = m.chip
            /\ log'  = m.log
            /\ ret'  = m.ret
            /\ call' = [op |-> "pixel_rgb", board |-> call.board, x |-> x, y |-> y,
                        rgb |-> c, k |-> k, checks |-> checks]

NextRgb ==
    \/ Keybow2040PixelRgb
    \/ LEDShimPixelRgb
    \/ RGBMatrix5x5PixelRgb

SpecRgb == InitRgb /\ [][NextRgb]_vars


(***************************************************************************)
(* impl IS31FL3731 (async): the same operations on an asynchronous         *)
(* transport.  Awaiting self.i2c.write completes with the transport's      *)
(* outcome for that transaction; a call is taken from its first poll to    *)
(* its completion.                                                         *)
(***************************************************************************)
\* self.i2c.write(self.address, bytes).await
i2c_write_await(m, bytes, target) ==
    LET n  == m.ntx + 1
        ok == n # m.failAt
    IN  [m EXCEPT !.ntx  = n,
                  !.log  = Append(@, Tx(m.self.address, bytes, ok, target)),
                  !.chip = IF ok THEN chip_apply(@, bytes) ELSE @,
                  !.ret  = IF ok THEN Ok ELSE Err(BusError)]

bank_async(m, bank) ==
    i2c_write_await(m, <<BANK_ADDRESS, bank>>, bank)

write_register_async(m, bank, register, value) ==
    LET m1 == bank_async(m, bank)
    IN  IF IsErr(m1) THEN m1
        ELSE i2c_write_await(m1, <<register, value>>, bank)

sleep_async(m, yes) ==
    write_register_async(m, CONFIG_BANK, SHUTDOWN, IF yes THEN 0 ELSE 1)

audio_sync_async(m, yes) ==
    write_register_async(m, CONFIG_BANK, AUDIOSYNC, IF yes THEN 1 ELSE 0)

mode_async(m, mode) ==
    write_register_async(m, CONFIG_BANK, MODE_REGISTER, mode)

reset_async(m) ==
    LET m1 == sleep_async(m, TRUE)
        m2 == delay_ms(m1, RESET_MS)
    IN  IF IsErr(m1) THEN m1
        ELSE sleep_async(m2, FALSE)

\* Faulty variant: the cached frame is assigned only after the write succeeded.
frame_async_cache_after_write(m, frame) ==
    IF frame > MAX_FRAME
    THEN [m EXCEPT !.ret = Err(InvalidLocation(frame))]
    ELSE LET m1 == write_register_async(m, CONFIG_BANK, FRAME, frame)
         IN  IF IsErr(m1) THEN Raise(m1)
             ELSE [m1 EXCEPT !.self.frame = frame]

frame_async(m, frame) ==
    IF frame > MAX_FRAME
    THEN [m EXCEPT !.ret = Err(InvalidLocation(frame))]
    ELSE LET m1 == [m EXCEPT !.self.frame = frame]
             m2 == write_register_async(m1, CONFIG_BANK, FRAME, frame)
         IN  IF IsErr(m2) THEN Raise(m2) ELSE m2

pixel_async(m, led, brightness) ==
    IF led >= NUM_LEDS
    THEN [m EXCEPT !.ret = Err(InvalidLocation(led))]
    ELSE LET m1 == write_register_async(m, m.self.frame, COLOR_OFFSET + led, brightness)
         IN  IF IsErr(m1) THEN Raise(m1) ELSE m1

all_pixels_async(m, buf) ==
    LET m1 == bank_async(m, m.self.frame)
        payload == <<COLOR_OFFSET>> \o buf
        m2 == i2c_write_await(m1, payload, m.self.frame)
    IN  IF IsErr(m1) THEN Raise(m1)
        ELSE IF IsErr(m2) THEN Raise(m2) ELSE m2

\* for row in 0..6 { payload[0] = COLOR_OFFSET + row * 24; i2c.write(payload).await?; }
RECURSIVE fill_rows_async(_, _, _, _)
fill_rows_async(m, payload, frame, row) ==
    IF row >= FILL_ROWS THEN m
    ELSE LET m1 == i2c_write_await(m, [payload EXCEPT ![1] = COLOR_OFFSET + row * ROW_LEN], frame)
         IN  IF IsErr(m1) THEN m1
             ELSE fill_rows_async(m1, payload, frame, row + 1)

\* for col in 0..18 { write_register(frame, BLINK_OFFSET + col, data).await?; }
RECURSIVE fill_blink_async(_, _, _, _)
fill_blink_async(m, frame, data, col) ==
    IF col >= NUM_COLS THEN m
    ELSE LET m1 == write_register_async(m, frame, BLINK_OFFSET + col, data)
         IN  IF IsErr(m1) THEN m1
             ELSE fill_blink_async(m1, frame, data, col + 1)

fill_async(m, brightness, blink, frame) ==
    LET m1 == bank_async(m, frame)
        payload == [i \in 1..PAYLOAD_LEN |-> brightness]
        m2 == fill_rows_async(m1, payload, frame, 0)
        data == (IF unwrap(blink) THEN 1 ELSE 0) * 255
    IN  IF IsErr(m1) THEN m1
        ELSE IF IsErr(m2) THEN m2
        ELSE IF is_some(blink) THEN fill_blink_async(m2, frame, data, 0)
        ELSE m2

\* for col in 0..18 { write_register(frame, ENABLE_OFFSET + col, 0xFF).await?; }
RECURSIVE setup_enable_async(_, _, _)
setup_enable_async(m, frame, col) ==
    IF col >= NUM_COLS THEN m
    ELSE LET m1 == write_register_async(m, frame, ENABLE_OFFSET + col, 255)
         IN  IF IsErr(m1) THEN m1
             ELSE setup_enable_async(m1, frame, col + 1)

\* for frame in 0..8 { fill(0, Some(false), frame).await?; for col in 0..18 {...} }
RECURSIVE setup_frames_async(_, _)
setup_frames_async(m, frame) ==
    IF frame >= SETUP_FRAMES THEN m
    ELSE LET m1 == fill_async(m, 0, Some(FALSE), frame)
             m2 == setup_enable_async(m1, frame, 0)
         IN  IF IsErr(m1) THEN m1
             ELSE IF IsErr(m2) THEN m2
             ELSE setup_frames_async(m2, frame + 1)

setup_async(m) ==
    LET m1 == sleep_async(m, TRUE)
        m2 == delay_ms(m1, RESET_MS)
        m3 == mode_async(m2, PICTURE_MODE)
        m4 == frame_async(m3, 0)
        m5 == setup_frames_async(m4, 0)
        m6 == audio_sync_async(m5, FALSE)
        m7 == sleep_async(m6, FALSE)
    IN  IF IsErr(m1) THEN Raise(m1)
        ELSE IF IsErr(m3) THEN Raise(m3)
        ELSE IF IsErr(m4) THEN m4
        ELSE IF IsErr(m5) THEN Raise(m5)
        ELSE IF IsErr(m6) THEN Raise(m6)
        ELSE IF IsErr(m7) THEN Raise(m7)
        ELSE m7

(***************************************************************************)
(* The state machine of a caller that uses the async operations.           *)
(***************************************************************************)
SetupAsync ==
    \E k \in FailPoints :
        \E m \in {setup_async(Machine(dev, chip, k))} :
            /\ dev'  = m.self
            /\ chip' = m.chip
            /\ log'  = m.log
            /\ ret'  = m.ret
            /\ call' = [op |-> "setup"]

ResetAsync ==
    \E k \in FailPoints :
        \E m \in {reset_async(Machine(dev, chip, k))} :
            /\ dev'  = m.self
            /\ chip' = m.chip
            /\ log'  = m.log
            /\ ret'  = m.ret
            /\ call' = [op |-> "reset"]

FillAsync ==
    \E k \in FailPoints, b \in Brightness, bl \in BlinkArgs, f \in FillFrames :
        \E m \in {fill_async(Machine(dev, chip, k), b, bl, f)} :
            /\ dev'  = m.self
            /\ chip' = m.chip
            /\ log'  = m.log
            /\ ret'  = m.ret
            /\ call' = [op |-> "fill", brightness |-> b, blink |-> bl, frame |-> f]

PixelAsync ==
    \E k \in FailPoints, led \in LedArgs, b \in Brightness :
        \E m \in {pixel_async(Machine(dev, chip, k), led, b)} :
            /\ dev'  = m.self
            /\ chip' = m.chip
            /\ log'  = m.log
            /\ ret'  = m.ret
            /\ call' = [op |-> "pixel", led |-> led, brightness |-> b]

AllPixelsAsync ==
    \E k \in FailPoints, buf \in Buffers :
        \E m \in {all_pixels_async(Machine(dev, chip, k), buf)} :
            /\ dev'  = m.self
            /\ chip' = m.chip
            /\ log'  = m.log
            /\ ret'  = m.ret
            /\ call' = [op |-> "all_pixels", buf |-> buf]

FrameAsync ==
    \E k \in FailPoints, f \in FrameArgs :
        \E m \in {frame_async(Machine(dev, chip, k), f)} :
            /\ dev'  = m.self
            /\ chip' = m.chip
            /\ log'  = m.log
            /\ ret'  = m.ret
            /\ call' = [op |-> "frame", frame |-> f]

ModeAsync ==
    \E k \in FailPoints, md \in ModeArgs :
        \E m \in {mode_async(Machine(dev, chip, k), md)} :
            /\ dev'  = m.self
            /\ chip' = m.chip
            /\ log'  = m.log
            /\ ret'  = m.ret
            /\ call' = [op |-> "mode", mode |-> md]

AudioSyncAsync ==
    \E k \in FailPoints, yes \in BOOLEAN :
        \E m \in {audio_sync_async(Machine(dev, chip, k), yes)} :
            /\ dev'  = m.self
            /\ chip' = m.chip
            /\ log'  = m.log
            /\ ret'  = m.ret
            /\ call' = [op |-> "audio_sync", yes |-> yes]

SleepAsync ==
    \E k \in FailPoints, yes \in BOOLEAN :
        \E m \in {sleep_async(Machine(dev, chip, k), yes)} :
            /\ dev'  = m.self
            /\ chip' = m.chip
            /\ log'  = m.log
            /\ ret'  = m.ret
            /\ call' = [op |-> "sleep", yes |-> yes]

SetAddressAsync ==
    \E a \in Addresses :
        \E m \in {set_address(Machine(dev, chip, 0), a)} :
            /\ dev'  = m.self
            /\ chip' = m.chip
            /\ log'  = m.log
            /\ ret'  = m.ret
            /\ call' = [op |-> "set_address", address |-> a]

NextAsync ==
    \/ SetupAsync
    \/ ResetAsync
    \/ FillAsync
    \/ PixelAsync
    \/ AllPixelsAsync
    \/ FrameAsync
    \/ ModeAsync
    \/ AudioSyncAsync
    \/ SleepAsync
    \/ SetAddressAsync

SpecAsync == Init /\ [][NextAsync]_vars

(***************************************************************************)
(* C11: setAllPixels(buf) with a succeeding transport issues exactly the   *)
(* bank-select [0xFD, F], F the cached frame, then one 145-byte            *)
(* transaction [0x24, buf[0], ..., buf[143]]; the 144 values are never     *)
(* split across several transactions.                                      *)
(***************************************************************************)
C11_AllPixelsOneTransaction ==
    [][ call'.op = "all_pixels" =>
          /\ TransportOk(log') =>
                /\ ret' = Ok
                /\ WireLog(log') = << W(<<253, dev.frame>>), W(<<36>> \o call'.buf) >>
          /\ \A i \in DOMAIN log' :
                IsWrite(log'[i]) => Len(log'[i].bytes) = 145 /\ i = 2 ]_vars

C11_Witness ==
    /\ call.op = "all_pixels"
    /\ call.buf[144] = 144
    /\ dev.frame = 8
    /\ ret.ok
    /\ NumTx(log) = 2

(***************************************************************************)
(* C12: reset with a succeeding transport produces exactly [0xFD, 0x0B],   *)
(* [0x0A, 0x00], one 10 ms delay, [0xFD, 0x0B], [0x0A, 0x01]; it writes no *)
(* mode or frame-select register and no frame bank; when the sleep-assert  *)
(* write fails no delay is made.                                           *)
(***************************************************************************)
C12_Reset ==
    call.op = "reset" =>
        /\ TransportOk(log) =>
              /\ ret = Ok
              /\ WireLog(log) = RegWrite(11, 10, 0) \o <<D(10)>> \o RegWrite(11, 10, 1)
        /\ \A i \in DOMAIN log :
              /\ IsBankSel(log[i]) => log[i].bytes[2] = 11
              /\ IsWrite(log[i])   => log[i].bytes[1] = 10
        /\ (\E i \in FailedTx(log) : NumTx(SubSeq(log, 1, i)) <= 2) => NumDelays(log) = 0

C12_Witness ==
    \* the sleep-assert's register write (2nd transaction) failed
    /\ call.op = "reset"
    /\ NumTx(log) = 2
    /\ FailedTx(log) = {2}

(***************************************************************************)
(* C19: fill(b, blink, frame) with a succeeding transport first issues     *)
(* [0xFD, frame] and then six 25-byte transactions, row r being            *)
(* [0x24 + 24*r, b x 24]; together they write each brightness register     *)
(* 0x24..0xB3 exactly once, touch no register outside that range, and no   *)
(* start offset exceeds 8 bits.                                            *)
(***************************************************************************)
\* The registers a write covers.
RegsCovered(e) == e.bytes[1]..(e.bytes[1] + Len(e.bytes) - 2)

C19_FillRows ==
    (call.op = "fill" /\ TransportOk(log)) =>
        /\ SubSeq(WireLog(log), 1, 7)
             = <<W(<<253, call.frame>>)>>
               \o [r \in 1..6 |-> W(<<36 + 24 * (r - 1)>> \o [i \in 1..24 |-> call.brightness])]
        /\ \A reg \in 36..179 :
              Cardinality({i \in BulkWrites(log) : reg \in RegsCovered(log[i])}) = 1
        /\ \A i \in BulkWrites(log) :
              /\ RegsCovered(log[i]) \subseteq 36..179
              /\ log[i].bytes[1] <= 255

C19_Witness ==
    /\ call.op = "fill"
    /\ call.brightness = 100
    /\ call.blink = <<>>
    /\ call.frame = 2
    /\ TransportOk(log)
    /\ NumTx(log) = 7

(***************************************************************************)
(* C20: with a succeeding transport setMode(m) issues [0xFD, 0x0B] then    *)
(* [0x00, m]; setAudioSync(true/false) then [0x06, 1/0]; setSleep(true)    *)
(* then [0x0A, 0x00] and setSleep(false) then [0x0A, 0x01]; nothing else.  *)
(***************************************************************************)
C20_ConfigWrites ==
    TransportOk(log) =>
        /\ call.op = "mode" =>
              ret = Ok /\ WireLog(log) = RegWrite(11, 0, call.mode)
        /\ call.op = "audio_sync" =>
              ret = Ok /\ WireLog(log) = RegWrite(11, 6, IF call.yes THEN 1 ELSE 0)
        /\ call.op = "sleep" =>
              ret = Ok /\ WireLog(log) = RegWrite(11, 10, IF call.yes THEN 0 ELSE 1)

C20_Witness ==
    /\ call.op = "sleep"
    /\ call.yes
    /\ ret.ok
    /\ NumTx(log) = 2

(***************************************************************************)
(* C13: for every board layout, translate(x, y) returns an index in        *)
(* [0, 144) for every (x, y) within the layout's bounds, and for every     *)
(* (x, y) outside them it fails with InvalidLocation carrying the          *)
(* offending coordinate: x when x is out of range, otherwise y.            *)
(***************************************************************************)
\* Width and height of each layout's grid: the 16x9 matrix, the 28x3, 16x3
\* and 25x3 RGB-channel tables, and the 17x7, 15x7 and 16x8 serpentine boards.
LayoutBounds ==
    [Matrix        |-> <<16, 9>>,
     LEDShim       |-> <<28, 3>>,
     Keybow2040    |-> <<16, 3>>,
     RGBMatrix5x5  |-> <<25, 3>>,
     ScrollPhatHD  |-> <<17, 7>>,
     CharlieWing   |-> <<15, 7>>,
     CharlieBonnet |-> <<16, 8>>]

XInBounds(layout, x) == x < LayoutBounds[layout][1]
YInBounds(layout, y) == y < LayoutBounds[layout][2]

C13_TranslateTotal ==
    call.op = "calc_pixel" =>
        IF XInBounds(call.layout, call.x) /\ YInBounds(call.layout, call.y)
        THEN IsOkVal(ret) /\ ret.val \in 0..143
        ELSE ret = Err(InvalidLocation(IF XInBounds(call.layout, call.x)
                                       THEN call.y ELSE call.x))

(***************************************************************************)
(* C14: within each board layout translate is injective: no two distinct   *)
(* (x, y) pairs that the layout accepts map to the same physical index.    *)
(***************************************************************************)
C14_TranslateInjective ==
    (call.op = "calc_pixel" /\ IsOkVal(ret)) =>
        \A x2 \in XArgs : \A y2 \in YArgs :
            <<x2, y2>> # <<call.x, call.y>>
                => calc_pixel(call.layout, x2, y2, call.checks) # ret

(***************************************************************************)
(* C18: gamma(0) = 0, gamma(255) = 255, and gamma(v) <= gamma(v + 1) for   *)
(* every v in 0..254, over the 256-entry table.                            *)
(***************************************************************************)
C18_Gamma ==
    call.op = "gamma" =>
        /\ Len(GAMMA_TABLE) = 256
        /\ call.val = 0   => ret.val = 0
        /\ call.val = 255 => ret.val = 255
        /\ call.val < 255 => ret.val <= gamma(call.val + 1)

C18_Witness ==
    /\ call.op = "gamma"
    /\ call.val = 255
    /\ ret = OkVal(255)

(***************************************************************************)
(* C15: an RGB pixel write called with a logical coordinate outside the    *)
(* board's grid (x >= 4 or y >= 4 on the 4x4 Keybow, x >= 28 on the LED    *)
(* shim, x >= 5 or y >= 5 on the 5x5 matrix) fails with InvalidLocation    *)
(* and issues no bus transaction; it never wraps, panics, or writes to     *)
(* the LEDs of another pixel.                                              *)
(***************************************************************************)
InGrid(c) ==
    CASE c.board = "Keybow2040"   -> c.x < 4 /\ c.y < 4
      [] c.board = "LEDShim"      -> c.x < 28
      [] c.board = "RGBMatrix5x5" -> c.x < 5 /\ c.y < 5

C15_RgbOutOfGridRejected ==
    (call.op = "pixel_rgb" /\ ~InGrid(call)) =>
        /\ log = <<>>
        /\ ~ret.ok
        /\ ~IsPanic(ret)
        /\ ret.err.variant = "InvalidLocation"

(***************************************************************************)
(* C16: an RGB pixel write issues its three setPixel calls in the order    *)
(* red, green, blue; when a channel's write fails the call returns that    *)
(* first error, the later channels are never written and the earlier ones  *)
(* stay written: no transaction follows the failed one.                    *)
(***************************************************************************)
\* The row of the board's table that the pixel's three channels are read from.
RgbRow(c) ==
    CASE c.board = "Keybow2040"   -> 4 * (3 - c.x) + c.y
      [] c.board = "LEDShim"      -> c.x
      [] c.board = "RGBMatrix5x5" -> c.x + c.y * 5

\* The pixel's three setPixel calls on the wire, in the order red, green, blue.
RgbWrites(c, f) ==
    LET led(ch) == calc_pixel(c.board, RgbRow(c), ch, c.checks).val
    IN  RegWrite(f, 36 + led(0), c.rgb[1])
        \o RegWrite(f, 36 + led(1), c.rgb[2])
        \o RegWrite(f, 36 + led(2), c.rgb[3])

C16_RgbOrderAndFirstError ==
    (call.op = "pixel_rgb" /\ InGrid(call)) =>
        IF call.k \in 1..6
        THEN /\ Len(log) = call.k
             /\ WireLog(log) = SubSeq(RgbWrites(call, dev.frame), 1, call.k)
             /\ FailedTx(log) = {call.k}
             /\ ret = Err(From(BusError))
        ELSE /\ WireLog(log) = RgbWrites(call, dev.frame)
             /\ TransportOk(log)
             /\ ret = Ok

C16_Witness ==
    \* the green channel's register write, the call's 4th transaction, failed
    /\ call.op = "pixel_rgb"
    /\ call.board = "RGBMatrix5x5"
    /\ call.x = 4 /\ call.y = 4
    /\ call.k = 4
    /\ Len(log) = 4
    /\ ~ret.ok

(***************************************************************************)
(* C17: for the same calls, arguments and per-transaction transport        *)
(* outcomes, the async variant of every engine operation produces the same *)
(* bus transactions and delays, the same result and the same cached frame  *)
(* index as the blocking variant.                                          *)
(***************************************************************************)
\* The number of the transaction the transport failed in a call's log, 0 if none.
FailedAt(l) ==
    IF FailedTx(l) = {} THEN 0
    ELSE NumTx(SubSeq(l, 1, CHOOSE i \in FailedTx(l) : TRUE))

\* The blocking variant of call c, run on device d and chip ch with the
\* transport failing transaction k.
BlockingRun(c, d, ch, k) ==
    CASE c.op = "setup"       -> setup_blocking(Machine(d, ch, k))
      [] c.op = "reset"       -> reset_blocking(Machine(d, ch, k))
      [] c.op = "fill"        -> fill_blocking(Machine(d, ch, k), c.brightness, c.blink, c.frame)
      [] c.op = "pixel"       -> pixel_blocking(Machine(d, ch, k), c.led, c.brightness)
      [] c.op = "all_pixels"  -> all_pixels_blocking(Machine(d, ch, k), c.buf)
      [] c.op = "frame"       -> frame_blocking(Machine(d, ch, k), c.frame)
      [] c.op = "mode"        -> mode_blocking(Machine(d, ch, k), c.mode)
      [] c.op = "audio_sync"  -> audio_sync_blocking(Machine(d, ch, k), c.yes)
      [] c.op = "sleep"       -> sleep_blocking(Machine(d, ch, k), c.yes)
      [] c.op = "set_address" -> set_address(Machine(d, ch, k), c.address)

C17_AsyncMatchesBlocking ==
    [][ \E m \in {BlockingRun(call', dev, chip, FailedAt(log'))} :
            /\ log'  = m.log
            /\ ret'  = m.ret
            /\ dev'  = m.self
            /\ chip' = m.chip ]_vars

C17_Witness ==
    /\ call.op = "frame"
    /\ call.frame = 8
    /\ FailedAt(log) = 2
    /\ dev.frame = 8

(***************************************************************************)
(* C21: for every board layout and every (x, y) that passes the layout's   *)
(* bounds check, translate computes its result without 8-bit arithmetic    *)
(* underflow or overflow and without indexing a lookup table outside its   *)
(* rows or columns.  An index outside the table panics in every build; an  *)
(* overflow panics in the build with overflow checks, so the call is       *)
(* looked at in that build as well as in its own.                          *)
(***************************************************************************)
C21_TranslateNoOverflow ==
    call.op = "calc_pixel" =>
        /\ ~IsPanic(ret)
        /\ ~IsPanic(calc_pixel(call.layout, call.x, call.y, TRUE))

(***************************************************************************)
(* C22: after setup returns success, whatever the cached frame index was   *)
(* before the call, the cached frame index is 0 and the chip's             *)
(* frame-select register holds 0, so the next setPixel or setAllPixels     *)
(* targets frame 0; the fills setup performs on the other frames do not    *)
(* change the cached frame index.                                          *)
(***************************************************************************)
C22_SetupLeavesFrame0 ==
    [][ /\ (call'.op = "setup" /\ ret'.ok) =>
              /\ dev'.frame = 0
              /\ chip'.frame = 0
        /\ (/\ call.op = "setup" /\ ret.ok
            /\ call'.op \in {"pixel", "all_pixels"}
            /\ log' # <<>>) =>
              /\ log'[1].bytes = <<253, 0>>
              /\ dev'.frame = 0 ]_vars

C22_Witness ==
    /\ call.op = "setup"
    /\ ret.ok
    /\ dev.frame = 0
    /\ chip.frame = 0
    /\ NumTx(log) = 642
====
